---------------------------- MODULE Spec2Model ----------------------------
(***************************************************************************)
(* A model of pyjava (src/pyjava/__init__.py): the wire codec, the value   *)
(* marshaller, the dispatch loop of _execute_command and the handle        *)
(* registry with its finalizer-driven release.                             *)
(*                                                                         *)
(* Text is modelled as a sequence of one-character strings; "CR" and "LF"  *)
(* stand for the carriage return and the line feed.                        *)
(***************************************************************************)
EXTENDS Integers, Sequences, FiniteSets, TLC

VARIABLES
    _java_popen,            \* 0 for None, else the number of the session
    nsess,                  \* how many remote processes have been started
    heap,                   \* the proxies created, by reference
    held,                   \* the references the caller holds
    _loaded_classes,        \* name -> reference (0: no entry)
    _loaded_classes_by_id,  \* id -> reference
    _loaded_methods,        \* <<owner id, name>> -> reference
    _loaded_objects,        \* id -> reference
    alloc,                  \* the remote side: what each id is allocated to
    stack,                  \* the calls in progress, innermost last
    pend,                   \* proxies whose last reference is gone, to finalize
    res,                    \* what the last finished call handed to the caller
    req,                    \* the request written by the last step, if any
    ended,                  \* the sessions whose SHUTDOWN has been observed
    pin,    \* input of the pure function under check (codec, marshaller)
    pout,   \* its output
    ppc     \* which step of the pure check has been taken

purevars == <<pin, pout, ppc>>

caches == <<_loaded_classes, _loaded_classes_by_id, _loaded_methods, _loaded_objects>>

mainvars ==
    <<_java_popen, nsess, heap, held, caches, alloc, stack, pend, res, req, ended>>

vars == <<mainvars, purevars>>

---------------------------------------------------------------------------
(* Generic helpers *)

RECURSIVE Reversed(_)
Reversed(s) == IF s = <<>> THEN <<>> ELSE Append(Reversed(Tail(s)), Head(s))

RECURSIVE SeqsUpTo(_, _)
SeqsUpTo(S, n) ==
    IF n = 0 THEN {<<>>}
    ELSE LET shorter == SeqsUpTo(S, n - 1)
         IN  shorter \cup {Append(s, c) : s \in shorter, c \in S}

---------------------------------------------------------------------------
(* Wide integers.  Python integers are unbounded; an intermediate value of *)
(* the codec (an int32 made unsigned) does not fit the checker's 32-bit    *)
(* integers, so a codec value is the pair hi * 2^16 + lo, 0 <= lo < 2^16.  *)

Limb == 65536

Wide(n) == [hi |-> n \div Limb, lo |-> n % Limb]

WNorm(hi, lo) == [hi |-> hi + (lo \div Limb), lo |-> lo % Limb]

WAdd(a, b) == WNorm(a.hi + b.hi, a.lo + b.lo)

WSub(a, b) == WNorm(a.hi - b.hi, a.lo - b.lo)

\* a >> 4 and a << 4 of Python
WShr4(a) == [hi |-> a.hi \div 16, lo |-> (a.hi % 16) * 4096 + (a.lo \div 16)]

WShl4(a) == WNorm(a.hi * 16, a.lo * 16)

WZero == [hi |-> 0, lo |-> 0]

\* 1 << 32
WTwo32 == [hi |-> Limb, lo |-> 0]

\* the plain integer of a wide value that fits 32 bits
WToInt(a) == a.hi * Limb + a.lo

---------------------------------------------------------------------------
(* Wire codec *)

_DIGIT_CHARS ==
    << "0", "1", "2", "3", "4", "5", "6", "7", "8", "9", "a", "b", "c", "d",
       "e", "f", "g", "h", "i", "j", "k", "l", "m", "n", "o", "p", "q", "r",
       "s", "t", "u", "v", "w", "x", "y", "z" >>

\* INTEGER_MAX_VALUE = (1 << 31) - 1
INTEGER_MAX_VALUE == 2147483647

\* str.zfill(width): pad with "0" on the left up to width
RECURSIVE zfill(_, _)
zfill(s, width) == IF Len(s) >= width THEN s ELSE zfill(<<"0">> \o s, width)

\* the while loop of _int_to_str: i is wide, result holds the digits, least
\* significant first
RECURSIVE IntToStrLoop(_, _, _, _)
IntToStrLoop(i, bits_written, bit_size, result) ==
    IF i # WZero /\ bits_written < bit_size
    THEN LET next  == WShr4(i)
             digit == WToInt(WSub(i, WShl4(next)))
         IN  IntToStrLoop(next, bits_written + 4, bit_size,
                          Append(result, _DIGIT_CHARS[digit + 1]))
    ELSE result

\* _int_to_str(i, bit_size): "Make unsigned", the digit loop, reversed, zfill;
\* the fields modelled are the 32-bit ones, so a negative i gets 1 << 32
_int_to_str(i, bit_size) ==
    LET w == IF i < 0 THEN WAdd(Wide(i), WTwo32) ELSE Wide(i)
    IN  zfill(Reversed(IntToStrLoop(w, 0, bit_size, <<>>)), bit_size \div 4)

\* os.linesep of the two platform families
LineSep(os) == IF os = "nt" THEN <<"CR", "LF">> ELSE <<"LF">>

\* popen.stdin.write(v): the stream is a text stream opened with the default
\* newline handling, which writes each line feed as os.linesep
RECURSIVE StdinWrite(_, _)
StdinWrite(v, os) ==
    IF v = <<>> THEN <<>>
    ELSE (IF Head(v) = "LF" THEN LineSep(os) ELSE <<Head(v)>>)
         \o StdinWrite(Tail(v), os)

\* popen.stdout.read(n): up to n characters of a text stream opened with the
\* default newline handling, which reads CR LF and a lone CR as one line feed
RECURSIVE StdoutRead(_, _)
StdoutRead(stream, n) ==
    IF n <= 0 \/ stream = <<>> THEN [data |-> <<>>, rest |-> stream]
    ELSE LET crlf == Head(stream) = "CR" /\ Len(stream) >= 2 /\ stream[2] = "LF"
             c    == IF Head(stream) = "CR" THEN "LF" ELSE Head(stream)
             more == StdoutRead(IF crlf THEN Tail(Tail(stream)) ELSE Tail(stream), n - 1)
         IN  [data |-> <<c>> \o more.data, rest |-> more.rest]

HexDigits == {_DIGIT_CHARS[k] : k \in 1..16}

HexValue(c) == CHOOSE k \in 0..15 : _DIGIT_CHARS[k + 1] = c

\* int(s, 16) of a text of hexadecimal digits, as a wide value
RECURSIVE ParseHexLoop(_, _)
ParseHexLoop(s, acc) ==
    IF s = <<>> THEN acc
    ELSE ParseHexLoop(Tail(s), WAdd(WShl4(acc), Wide(HexValue(Head(s)))))

\* int(s, 16) raises ValueError on an empty text or on a character that is
\* no digit
BadHex(s) == s = <<>> \/ \E k \in 1..Len(s) : s[k] \notin HexDigits

\* int(s, 16), as a wide value
ParseHex(s) == IF BadHex(s) THEN WZero ELSE ParseHexLoop(s, WZero)

\* int(self.stdout.read(8), 16) of _read_int: the value (wide), the
\* exception raised ("" for none) and the stream left
Int16(r) ==
    [exc   |-> IF BadHex(r.data) THEN "ValueError" ELSE "",
     value |-> ParseHex(r.data),
     rest  |-> r.rest]

\* if value > INTEGER_MAX_VALUE: value -= 1 << 32
Signed(n) ==
    IF n.value.hi > 32767 THEN [n EXCEPT !.value = WSub(@, WTwo32)] ELSE n

\* _read_int without the reinterpretation of a value above INTEGER_MAX_VALUE
_read_int_unsigned(stream) == Int16(StdoutRead(stream, 8))

\* _read_int: the value read (wide), the exception raised ("" for none) and
\* the stream left
_read_int(stream) == Signed(Int16(StdoutRead(stream, 8)))

\* _write_str: the frame of s as _write_maybe_int(len(s), s) hands it to write
_write_str(s) == _int_to_str(Len(s), 32) \o s

\* the argument of read in _read_str; read(n) with n < 0 reads to the end
ReadCount(n) == IF n.value.hi < 0 THEN Len(n.rest) ELSE WToInt(n.value)

\* the text _read_str hands back once the count n is read and r is what
\* read(count) gave
ReadText(n, r) ==
    IF n.exc # "" THEN [exc |-> n.exc, value |-> <<>>, rest |-> n.rest]
    ELSE [exc |-> "", value |-> r.data, rest |-> r.rest]

ReadStrAfter(n) == ReadText(n, StdoutRead(n.rest, ReadCount(n)))

\* _read_str: read(_read_int())
_read_str(stream) == ReadStrAfter(_read_int(stream))

---------------------------------------------------------------------------
(* Response tags and the dispatch loop of _execute_command on the stream *)

\* J2PyCommand
J2Py_SHUTDOWN == 0
J2Py_PRINT_OUT == 1
J2Py_INT_RESULT == 2
J2Py_ERROR_RESULT == 3
J2Py_VOID_RESULT == 4
J2Py_STRING_RESULT == 5
J2Py_INT_STRING_PAIR_RESULT == 6

\* the first index at or after k where the separator ": " starts in s, 0 if none
RECURSIVE FindSep(_, _)
FindSep(s, k) ==
    IF k + 1 > Len(s) THEN 0
    ELSE IF s[k] = ":" /\ s[k + 1] = " " THEN k
    ELSE FindSep(s, k + 1)

\* JavaException(fromstr): type, message = fromstr.split(': ', 1); a text
\* without the separator fails to unpack (ValueError)
JavaException(fromstr) ==
    LET k == FindSep(fromstr, 1)
    IN  IF k = 0
        THEN [exc |-> "ValueError", type |-> <<>>, message |-> <<>>]
        ELSE [exc     |-> "JavaException",
              type    |-> SubSeq(fromstr, 1, k - 1),
              message |-> SubSeq(fromstr, k + 2, Len(fromstr))]

\* what the loop hands back: how it ended (out), the terminal tag, the
\* exception raised, the value returned and the texts printed on the way
Outcome(out, tag, exc, printed, rest) ==
    [out |-> out, tag |-> tag, exc |-> exc, type |-> <<>>, message |-> <<>>,
     int |-> WZero, str |-> <<>>, printed |-> printed, rest |-> rest]

\* the index of a character in _DIGIT_CHARS, -1 for a character int(c, 36)
\* rejects
Base36(c) ==
    IF \E k \in 0..35 : _DIGIT_CHARS[k + 1] = c
    THEN CHOOSE k \in 0..35 : _DIGIT_CHARS[k + 1] = c
    ELSE -1

\* recv_command = int(self.stdout.read(1), 36) of the one character t read
\* (an exhausted stream reads as the tag 0)
RecvCommand(t) == IF t.data # <<>> THEN Base36(t.data[1]) ELSE J2Py_SHUTDOWN

\* ERROR_RESULT: raise JavaException(_read_str())
RaiseError(recv_command, e, printed, rest) ==
    [Outcome("raise", recv_command, e.exc, printed, rest)
     EXCEPT !.type = e.type, !.message = e.message]

ErrorResult(recv_command, s, printed) ==
    IF s.exc # ""
    THEN Outcome("raise", recv_command, s.exc, printed, s.rest)
    ELSE RaiseError(recv_command, JavaException(s.value), printed, s.rest)

\* INT_RESULT: return _read_int()
IntResult(recv_command, i, printed) ==
    IF i.exc # ""
    THEN Outcome("raise", recv_command, i.exc, printed, i.rest)
    ELSE [Outcome("int", recv_command, "", printed, i.rest) EXCEPT !.int = i.value]

\* STRING_RESULT: return _read_str()
StringResult(recv_command, s, printed) ==
    IF s.exc # ""
    THEN Outcome("raise", recv_command, s.exc, printed, s.rest)
    ELSE [Outcome("str", recv_command, "", printed, s.rest) EXCEPT !.str = s.value]

\* INT_STRING_PAIR_RESULT: return (_read_int(), _read_str())
PairText(recv_command, i, s, printed) ==
    IF s.exc # ""
    THEN Outcome("raise", recv_command, s.exc, printed, s.rest)
    ELSE [Outcome("pair", recv_command, "", printed, s.rest)
          EXCEPT !.int = i.value, !.str = s.value]

PairResult(recv_command, i, printed) ==
    IF i.exc # ""
    THEN Outcome("raise", recv_command, i.exc, printed, i.rest)
    ELSE PairText(recv_command, i, _read_str(i.rest), printed)

\* the while True loop of _execute_command, lines 216-242, on the
\* characters of the response stream
RECURSIVE DispatchLoop(_, _)

\* PRINT_OUT: print(_read_str()) and the loop goes on
PrintOut(recv_command, s, printed) ==
    IF s.exc # ""
    THEN Outcome("raise", recv_command, s.exc, printed, s.rest)
    ELSE DispatchLoop(s.rest, Append(printed, s.value))

\* the branches of the loop on recv_command, t being the tag character read
Dispatch(recv_command, t, printed) ==
    CASE recv_command \notin 0..6 ->
           Outcome("raise", recv_command, "ValueError", printed, t.rest)
      [] recv_command = J2Py_ERROR_RESULT ->
           ErrorResult(recv_command, _read_str(t.rest), printed)
      [] recv_command = J2Py_INT_RESULT ->
           IntResult(recv_command, _read_int(t.rest), printed)
      [] recv_command = J2Py_VOID_RESULT ->
           Outcome("none", recv_command, "", printed, t.rest)
      [] recv_command = J2Py_SHUTDOWN ->
           Outcome("none", recv_command, "", printed, t.rest)
      [] recv_command = J2Py_PRINT_OUT ->
           PrintOut(recv_command, _read_str(t.rest), printed)
      [] recv_command = J2Py_STRING_RESULT ->
           StringResult(recv_command, _read_str(t.rest), printed)
      [] recv_command = J2Py_INT_STRING_PAIR_RESULT ->
           PairResult(recv_command, _read_int(t.rest), printed)

ReadTag(t, printed) == Dispatch(RecvCommand(t), t, printed)

DispatchLoop(stream, printed) == ReadTag(StdoutRead(stream, 1), printed)

\* a frame as the remote side writes it: the tag, then the payload
RemoteStrFrame(tag, s) == <<_DIGIT_CHARS[tag + 1]>> \o _int_to_str(Len(s), 32) \o s

---------------------------------------------------------------------------
(* Value marshaller *)

\* the object_index of the pre-registered classes
jbyte == -1
jboolean == -2
jshort == -3
jchar == -4
jint == -5
jfloat == -6
jlong == -7
jdouble == -8
jObject == -9
jString == -10
jClass == -11

\* Host values.  k is the host type ("int", "float", "str", "class" for a
\* ClassProxy, "proxy" for any other AbstractObjectProxy, "other").  An int
\* holds v; sp = "huge" is an int beyond the range of a float.  A float holds
\* v halves (v = 5 is 2.5); sp is "inf", "ninf" or "nan" for the values that
\* are not finite, and "big" for a finite value beyond the range of a 32-bit
\* float.  A proxy holds its object_index in v.
HostValue(k, v, sp) == [k |-> k, v |-> v, sp |-> sp]

NoValue == HostValue("none", 0, "fin")

\* float(obj) of an int or a float
PyFloat(obj) ==
    IF obj.k = "float" THEN [exc |-> "", val |-> obj]
    ELSE IF obj.sp = "huge" THEN [exc |-> "OverflowError", val |-> NoValue]
    ELSE [exc |-> "", val |-> HostValue("float", 2 * obj.v, "fin")]

\* int(obj) of an int or a float: truncation towards zero
PyInt(obj) ==
    IF obj.k = "int" THEN [exc |-> "", val |-> obj]
    ELSE IF obj.sp \in {"inf", "ninf"} THEN [exc |-> "OverflowError", val |-> NoValue]
    ELSE IF obj.sp = "nan" THEN [exc |-> "ValueError", val |-> NoValue]
    ELSE IF obj.sp = "big" THEN [exc |-> "", val |-> HostValue("int", 0, "huge")]
    ELSE [exc |-> "",
          val |-> HostValue("int", IF obj.v >= 0 THEN obj.v \div 2
                                   ELSE -((-obj.v) \div 2), "fin")]

\* what _pyobject_to_jobject does: returns a proxy (act = "return"), raises
\* (act = "raise"), or needs CREATE_STRING first (act = "create_string")
Marshalled(act, exc, cls, object_index, value) ==
    [act |-> act, exc |-> exc, cls |-> cls, object_index |-> object_index,
     value |-> value]

PrimitiveObjectProxy(type, coerced) ==
    IF coerced.exc # ""
    THEN Marshalled("raise", coerced.exc, "", 0, NoValue)
    ELSE Marshalled("return", "", "PrimitiveObjectProxy", type, coerced.val)

\* _pyobject_to_jobject with the floating test placed after the integral one
\* (float is then taken for an integral type)
_pyobject_to_jobject_order(obj, has_type, preferred_type) ==
    IF obj.k \in {"int", "float"}
    THEN IF ~has_type \/ preferred_type = jObject
         THEN PrimitiveObjectProxy(IF obj.k = "int" THEN jint ELSE jdouble,
                                   [exc |-> "", val |-> obj])
         ELSE IF 0 > preferred_type /\ preferred_type > jdouble
         THEN PrimitiveObjectProxy(preferred_type, PyInt(obj))
         ELSE IF preferred_type \in {jfloat, jdouble}
         THEN PrimitiveObjectProxy(preferred_type, PyFloat(obj))
         ELSE Marshalled("raise", "ValueError", "", 0, NoValue)
    ELSE Marshalled("raise", "ValueError", "", 0, NoValue)

\* _pyobject_to_jobject(obj, preferred_type): has_type is FALSE for
\* preferred_type = None, and preferred_type is the object_index of the type
_pyobject_to_jobject(obj, has_type, preferred_type) ==
    IF obj.k = "class"
    THEN IF obj.v < 0
         THEN Marshalled("return", "", "_ArbitraryTemporaryProxy", obj.v - 8, NoValue)
         ELSE Marshalled("return", "", "same", obj.v, NoValue)
    ELSE IF obj.k = "proxy"
    THEN Marshalled("return", "", "same", obj.v, NoValue)
    ELSE IF obj.k = "str"
    THEN Marshalled("create_string", "", "", 0, NoValue)
    ELSE IF obj.k \in {"int", "float"}
    THEN IF ~has_type \/ preferred_type = jObject
         THEN PrimitiveObjectProxy(IF obj.k = "int" THEN jint ELSE jdouble,
                                   [exc |-> "", val |-> obj])
         ELSE IF preferred_type \in {jfloat, jdouble}
         THEN PrimitiveObjectProxy(preferred_type, PyFloat(obj))
         ELSE IF 0 > preferred_type /\ preferred_type > jdouble
         THEN PrimitiveObjectProxy(preferred_type, PyInt(obj))
         ELSE Marshalled("raise", "ValueError", "", 0, NoValue)
    ELSE Marshalled("raise", "ValueError", "", 0, NoValue)

---------------------------------------------------------------------------
(* The handle registry, the proxies and the session *)

\* None as an object_index (the value _execute_command returns on VOID_RESULT
\* and on SHUTDOWN)
None == -99

\* the remote side hands out the ids 0..MaxId
MaxId == 1

\* how many proxies exist at a time, and how many processes are started
MaxHandles == 2
MaxSess == 2

\* the longest parameter list of get_method and argument list of an invoke
MaxParams == 1
MaxArgs == 1

UserNames == {"A"}
MethodNames == {"f"}

\* the parameter types and the host arguments the caller uses
ParamTypes == {jint, jString}
ArgValues == {HostValue("int", 5, "fin"), HostValue("str", 0, "fin")}

BuiltinIds == jClass..jbyte

\* the name of each pre-registered class, lines 365-375
BuiltinName(id) ==
    CASE id = jbyte -> "byte" [] id = jboolean -> "boolean"
      [] id = jshort -> "short" [] id = jchar -> "char" [] id = jint -> "int"
      [] id = jfloat -> "float" [] id = jlong -> "long"
      [] id = jdouble -> "double" [] id = jObject -> "java.lang.Object"
      [] id = jString -> "java.lang.String" [] id = jClass -> "java.lang.Class"

BuiltinNames == {BuiltinName(id) : id \in BuiltinIds}

\* _DEFAULT_CLASSES: name -> pre-registered class
_DEFAULT_CLASSES(name) == CHOOSE id \in BuiltinIds : BuiltinName(id) = name

ClassNames == BuiltinNames \cup UserNames
Ids == (jClass..MaxId) \cup {None}

\* A reference is the object_index of a pre-registered class (negative), the
\* index of a proxy in heap (positive), or 0 for no reference.
NoRef == 0

\* A proxy.  sess is bookkeeping of the model: the session that was active
\* when the proxy was created (0: none).  st is "live", "dying" while its
\* finalizer runs, and "dead" once it is freed.
Proxy(cls, index, name, owner, types) ==
    [cls |-> cls, object_index |-> index, name |-> name, owner |-> owner,
     types |-> types, klass |-> NoRef, sess |-> _java_popen, st |-> "live"]

\* the slot of a freed proxy
DeadProxy ==
    [cls |-> "", object_index |-> 0, name |-> "", owner |-> NoRef,
     types |-> <<>>, klass |-> NoRef, sess |-> 0, st |-> "dead"]

\* the object_index behind a reference
IdOf(ref) == IF ref < 0 THEN ref ELSE heap[ref].object_index

HeapRefs == 1..Len(heap)

EmptyClasses == [n \in ClassNames |-> NoRef]
EmptyById == [i \in Ids |-> NoRef]
EmptyMethods == [k \in Ids \X MethodNames |-> NoRef]

\* a request as written to the stream; h is the proxy it is about, count the
\* argument count of an invoke and encs the arguments written after it;
\* partial says that the writing stopped on an exception
Request(cmd, index, name, h, sess, partial) ==
    [cmd |-> cmd, index |-> index, name |-> name, h |-> h, sess |-> sess,
     partial |-> partial, count |-> 0, encs |-> <<>>]

NoReq == Request("", 0, "", NoRef, 0, FALSE)

\* what a call hands to its caller: a proxy (out = "handle"; hit says it came
\* from a cache without any request), nothing, or an exception
Result(op, out, h, hit, exc) ==
    [op |-> op, out |-> out, h |-> h, hit |-> hit, exc |-> exc]

NoResult == Result("", "none", NoRef, FALSE, "")

\* what _execute_command handed back
Ret(out, tag, exc, int, str) ==
    [out |-> out, tag |-> tag, exc |-> exc, int |-> int, str |-> str]

NoRet == Ret("", -1, "", 0, "")

\* a call in progress: pc is "wait" (request written, response outstanding)
\* or "ret" (_execute_command has returned ret)
\* h is the proxy the call is made on, on the receiver of an invoke, sargs the
\* proxies in send_args and i the argument being marshalled
Frame(op, cmd, index, h, on, name, types, args, sargs, i) ==
    [op |-> op, pc |-> "wait", cmd |-> cmd, index |-> index, h |-> h,
     on |-> on, name |-> name, types |-> types, args |-> args,
     sargs |-> sargs, i |-> i, ret |-> NoRet]

FreshAlloc == [i \in 0..MaxId |-> "free"]

MainInit ==
    /\ _java_popen = 0
    /\ nsess = 0
    /\ heap = <<>>
    /\ held = {}
    /\ _loaded_classes =
          [n \in ClassNames |-> IF n \in BuiltinNames THEN _DEFAULT_CLASSES(n) ELSE NoRef]
    /\ _loaded_classes_by_id = [i \in Ids |-> IF i \in BuiltinIds THEN i ELSE NoRef]
    /\ _loaded_methods = EmptyMethods
    /\ _loaded_objects = EmptyById
    /\ alloc = FreshAlloc
    /\ stack = <<>>
    /\ pend = <<>>
    /\ res = NoResult
    /\ req = NoReq
    /\ ended = {}

PureOff == pin = 0 /\ pout = 0 /\ ppc = "off"

Init == MainInit /\ PureOff

\* all the registry and session variables of the next state at once; a
\* session that goes from active to None has been seen to shut down
Set(popen, ns, hp, hd, lc, ci, lm, lo, al, sk, pd, rs, rq) ==
    /\ _java_popen' = popen
    /\ nsess' = ns
    /\ heap' = hp
    /\ held' = hd
    /\ _loaded_classes' = lc
    /\ _loaded_classes_by_id' = ci
    /\ _loaded_methods' = lm
    /\ _loaded_objects' = lo
    /\ alloc' = al
    /\ stack' = sk
    /\ pend' = pd
    /\ res' = rs
    /\ req' = rq
    /\ ended' = IF popen = 0 /\ _java_popen # 0
                THEN ended \cup {_java_popen} ELSE ended
    /\ UNCHANGED purevars

\* no call in progress and no finalizer due: the caller's code runs
Idle == stack = <<>> /\ pend = <<>>

Top == stack[Len(stack)]
Pop == SubSeq(stack, 1, Len(stack) - 1)

\* _maybe_init as a request is written: the session the bytes go to, the
\* processes started so far and the remote side they reach (init() on None)
CanWrite == _java_popen # 0 \/ nsess < MaxSess
Started == IF _java_popen = 0 THEN nsess + 1 ELSE _java_popen
StartedCount == IF _java_popen = 0 THEN nsess + 1 ELSE nsess
StartedAlloc == IF _java_popen = 0 THEN FreshAlloc ELSE alloc

\* a slot for a new proxy: a finalized proxy's memory is reused
DeadRefs(hp) == {h \in 1..Len(hp) : hp[h].st = "dead"}
CanAlloc(hp) == DeadRefs(hp) # {} \/ Len(hp) < MaxHandles
NewRef(hp) ==
    IF DeadRefs(hp) # {}
    THEN CHOOSE h \in DeadRefs(hp) : \A g \in DeadRefs(hp) : h <= g
    ELSE Len(hp) + 1
PutProxy(hp, h, proxy) ==
    IF h <= Len(hp) THEN [hp EXCEPT ![h] = proxy] ELSE Append(hp, proxy)

Range(s) == {s[k] : k \in 1..Len(s)}

\* some reference to the proxy h is left: the caller's, another proxy's
\* owner or _klass, or a local of a call in progress
Referenced(h, hp, hd, sk) ==
    \/ h \in hd
    \/ \E x \in 1..Len(hp) :
          hp[x].st # "dead" /\ (hp[x].owner = h \/ hp[x].klass = h)
    \/ \E k \in 1..Len(sk) : h \in Range(sk[k].sargs)

\* the value of _execute_command used as an id
RetId(ret) == IF ret.out = "int" THEN ret.int ELSE None

---------------------------------------------------------------------------
(* The remote side: which answers a request can get.  The executor is not   *)
(* part of the sources at hand; it is modelled from the protocol: it hands  *)
(* out the smallest free id for a new resource, may answer an invoke with   *)
(* the id of an object it already holds, answers GET_OBJECT_CLASS with a    *)
(* pre-registered class, a class it already holds or a new one, may fail    *)
(* any request with ERROR_RESULT, and may end the session at any request    *)
(* (a SHUTDOWN tag, or the end of the stream).                              *)

Answer(kind, int, name) == [kind |-> kind, int |-> int, name |-> name]

FreeIds(al) == {i \in 0..MaxId : al[i] = "free"}
FreshIds(al) ==
    IF FreeIds(al) = {} THEN {}
    ELSE {CHOOSE i \in FreeIds(al) : \A j \in FreeIds(al) : i <= j}

EndAnswers == {Answer("shutdown", 0, ""), Answer("eof", 0, "")}
FailAnswers == {Answer("error", 0, "")} \cup EndAnswers

Answers(cmd, al) ==
    CASE cmd = "SHUTDOWN" -> EndAnswers
      [] cmd \in {"GET_CLASS", "GET_METHOD", "CREATE_STRING"} ->
           {Answer("int", i, "") : i \in FreshIds(al)} \cup FailAnswers
      [] cmd \in {"INVOKE_STATIC_METHOD", "INVOKE_METHOD"} ->
           {Answer("int", i, "") :
                i \in FreshIds(al) \cup {j \in 0..MaxId : al[j] = "object"}}
           \cup FailAnswers
      [] cmd = "GET_OBJECT_CLASS" ->
           {Answer("pair", jString, BuiltinName(jString))}
           \cup {Answer("pair", i, al[i]) : i \in {j \in 0..MaxId : al[j] \in UserNames}}
           \cup {Answer("pair", i, n) : i \in FreshIds(al), n \in UserNames}
           \cup FailAnswers
      [] cmd = "FREE_OBJECT" -> {Answer("void", 0, "")} \cup FailAnswers
      [] cmd = "TO_STRING" -> {Answer("str", 0, "text")} \cup FailAnswers

\* the remote side's table after it has given the answer
RemoteAfter(cmd, index, name, a, al) ==
    CASE a.kind \in {"shutdown", "eof"} -> FreshAlloc
      [] a.kind = "int" /\ cmd = "GET_CLASS" -> [al EXCEPT ![a.int] = name]
      [] a.kind = "int" /\ cmd = "GET_METHOD" -> [al EXCEPT ![a.int] = "method"]
      [] a.kind = "int" /\ cmd \notin {"GET_CLASS", "GET_METHOD"} ->
           [al EXCEPT ![a.int] = "object"]
      [] a.kind = "pair" /\ a.int >= 0 -> [al EXCEPT ![a.int] = a.name]
      [] a.kind = "void" /\ cmd = "FREE_OBJECT" /\ index \in 0..MaxId ->
           [al EXCEPT ![index] = "free"]
      [] OTHER -> al

\* the characters of an answer on the response stream; a name or a text
\* crosses as one character
ErrorText == <<"E", ":", " ", "m">>

AnswerStream(a) ==
    CASE a.kind = "eof" -> <<>>
      [] a.kind = "shutdown" -> <<_DIGIT_CHARS[J2Py_SHUTDOWN + 1]>>
      [] a.kind = "void" -> <<_DIGIT_CHARS[J2Py_VOID_RESULT + 1]>>
      [] a.kind = "int" ->
           <<_DIGIT_CHARS[J2Py_INT_RESULT + 1]>> \o _int_to_str(a.int, 32)
      [] a.kind = "error" -> RemoteStrFrame(J2Py_ERROR_RESULT, ErrorText)
      [] a.kind = "str" -> RemoteStrFrame(J2Py_STRING_RESULT, <<a.name>>)
      [] a.kind = "pair" ->
           <<_DIGIT_CHARS[J2Py_INT_STRING_PAIR_RESULT + 1]>>
           \o _int_to_str(a.int, 32) \o _int_to_str(1, 32) \o <<a.name>>

\* the SHUTDOWN branch of _execute_command, lines 228-236: the session is
\* marked inactive and the four caches are cleared
ShutdownReset(sk, al) ==
    Set(0, nsess, heap, held, EmptyClasses, EmptyById, EmptyMethods,
        EmptyById, al, sk, pend, res, NoReq)

\* _execute_command from line 214 on: the dispatch loop reads the answer to
\* the request in flight and hands back a value or raises
Returned(o) ==
    [stack EXCEPT ![Len(stack)] =
        [@ EXCEPT !.pc = "ret",
                  !.ret = Ret(o.out, o.tag, o.exc, WToInt(o.int),
                              IF o.str = <<>> THEN "" ELSE o.str[1])]]

\* the loop has taken the SHUTDOWN branch, the one place where _java_popen
\* is set to None (line 230)
SessionEnds(o) == o.out = "none" /\ o.tag = J2Py_SHUTDOWN

\* a loop that takes the SHUTDOWN branch on a raise as well
Dispatched_reset(o, al) ==
    IF SessionEnds(o) \/ o.out = "raise"
    THEN ShutdownReset(Returned(o), al)
    ELSE Set(_java_popen, nsess, heap, held, _loaded_classes,
             _loaded_classes_by_id, _loaded_methods, _loaded_objects,
             al, Returned(o), pend, res, NoReq)

Dispatched(o, al) ==
    IF SessionEnds(o)
    THEN ShutdownReset(Returned(o), al)
    ELSE Set(_java_popen, nsess, heap, held, _loaded_classes,
             _loaded_classes_by_id, _loaded_methods, _loaded_objects,
             al, Returned(o), pend, res, NoReq)

Respond ==
    /\ stack # <<>>
    /\ Top.pc = "wait"
    /\ \E a \in (IF _java_popen = 0 THEN {Answer("eof", 0, "")}
                ELSE Answers(Top.cmd, alloc)) :
          Dispatched(DispatchLoop(AnswerStream(a), <<>>),
                     RemoteAfter(Top.cmd, Top.index, Top.name, a, alloc))

---------------------------------------------------------------------------
(* The public operations.  A call that needs the remote side writes its     *)
(* request and leaves a frame on the stack; Respond is the dispatch loop;   *)
(* the Return actions are the rest of the caller after _execute_command.    *)

HeldPlus(h) == IF h > 0 THEN held \cup {h} ELSE held

\* a call that ends without any request
Finish(hp, hd, pd, rs) ==
    Set(_java_popen, nsess, hp, hd, _loaded_classes, _loaded_classes_by_id,
        _loaded_methods, _loaded_objects, alloc, <<>>, pd, rs, NoReq)

\* a call that writes a whole request and waits for the answer
Call(frame, name, hp, hd, lo) ==
    /\ CanWrite
    /\ Set(Started, StartedCount, hp, hd, _loaded_classes, _loaded_classes_by_id,
           _loaded_methods, lo, StartedAlloc, <<frame>>, pend, NoResult,
           Request(frame.cmd, frame.index, name, frame.h, Started, FALSE))

\* a call whose request stops after the command tag: an id that is None
\* makes the write of the first field raise TypeError
PartialCall(op, cmd, h, hp, hd, lo, pd) ==
    /\ CanWrite
    /\ Set(Started, StartedCount, hp, hd, _loaded_classes, _loaded_classes_by_id,
           _loaded_methods, lo, StartedAlloc, <<>>, pd,
           Result(op, "raise", NoRef, FALSE, "TypeError"),
           Request(cmd, None, "", h, Started, TRUE))

\* init(): a new process replaces _java_popen, whatever it was
init ==
    /\ Idle
    /\ nsess < MaxSess
    /\ Set(nsess + 1, nsess + 1, heap, held, _loaded_classes,
           _loaded_classes_by_id, _loaded_methods, _loaded_objects, FreshAlloc,
           <<>>, pend, Result("init", "none", NoRef, FALSE, ""), NoReq)

\* quit() without the test of line 279: the SHUTDOWN request in any case
quit_unguarded ==
    /\ Idle
    /\ Call(Frame("quit", "SHUTDOWN", 0, NoRef, NoRef, "", <<>>, <<>>, <<>>, 0),
            "", heap, held, _loaded_objects)

\* quit(): nothing without a session, else the SHUTDOWN request
quit ==
    /\ Idle
    /\ IF _java_popen = 0
       THEN Finish(heap, held, pend, Result("quit", "none", NoRef, TRUE, ""))
       ELSE Call(Frame("quit", "SHUTDOWN", 0, NoRef, NoRef, "", <<>>, <<>>, <<>>, 0),
                 "", heap, held, _loaded_objects)

ReturnQuit ==
    /\ stack # <<>> /\ Top.pc = "ret" /\ Top.op = "quit"
    /\ Finish(heap, held, pend, Result("quit", "none", NoRef, FALSE, ""))

\* class_for_name(name), lines 393-398
class_for_name(name) ==
    /\ Idle
    /\ IF name \in BuiltinNames
       THEN Finish(heap, held, pend,
                   Result("class_for_name", "handle", _DEFAULT_CLASSES(name), TRUE, ""))
       ELSE IF _loaded_classes[name] # NoRef
       THEN Finish(heap, HeldPlus(_loaded_classes[name]), pend,
                   Result("class_for_name", "handle", _loaded_classes[name], TRUE, ""))
       ELSE Call(Frame("class_for_name", "GET_CLASS", 0, NoRef, NoRef, name,
                       <<>>, <<>>, <<>>, 0), name, heap, held, _loaded_objects)

\* ClassProxy.__init__, lines 329-333: the new proxy is registered under its
\* name and under its id, over whatever was there
ReturnClassForName ==
    /\ stack # <<>> /\ Top.pc = "ret" /\ Top.op = "class_for_name"
    /\ IF Top.ret.out = "raise"
       THEN Finish(heap, held, pend,
                   Result("class_for_name", "raise", NoRef, FALSE, Top.ret.exc))
       ELSE /\ CanAlloc(heap)
            /\ LET h  == NewRef(heap)
                   id == RetId(Top.ret)
               IN  Set(_java_popen, nsess,
                       PutProxy(heap, h, Proxy("ClassProxy", id, Top.name, NoRef, <<>>)),
                       held \cup {h},
                       [_loaded_classes EXCEPT ![Top.name] = h],
                       [_loaded_classes_by_id EXCEPT ![id] = h],
                       _loaded_methods, _loaded_objects, alloc, <<>>, pend,
                       Result("class_for_name", "handle", h, FALSE, ""), NoReq)

\* the classes and the methods the caller can name
HeldOf(cls) == {h \in held : heap[h].cls = cls}

\* ClassProxy.get_method, lines 356-359.  The key (self, name) hashes and
\* compares by object_index; hashing a proxy whose id is None is a TypeError
get_method(c, name, types) ==
    /\ Idle
    /\ IF IdOf(c) = None
       THEN Finish(heap, held, pend, Result("get_method", "raise", NoRef, FALSE, "TypeError"))
       ELSE IF _loaded_methods[<<IdOf(c), name>>] # NoRef
       THEN Finish(heap, HeldPlus(_loaded_methods[<<IdOf(c), name>>]), pend,
                   Result("get_method", "handle", _loaded_methods[<<IdOf(c), name>>], TRUE, ""))
       ELSE Call(Frame("get_method", "GET_METHOD", IdOf(c), c, NoRef, name, types,
                       <<>>, <<>>, 0), name, heap, held, _loaded_objects)

\* MethodProxy.__init__, lines 430-440
ReturnGetMethod ==
    /\ stack # <<>> /\ Top.pc = "ret" /\ Top.op = "get_method"
    /\ IF Top.ret.out = "raise"
       THEN Finish(heap, held, pend,
                   Result("get_method", "raise", NoRef, FALSE, Top.ret.exc))
       ELSE /\ CanAlloc(heap)
            /\ LET h == NewRef(heap)
               IN  Set(_java_popen, nsess,
                       PutProxy(heap, h, Proxy("MethodProxy", RetId(Top.ret), Top.name,
                                               Top.h, Top.types)),
                       held \cup {h}, _loaded_classes, _loaded_classes_by_id,
                       [_loaded_methods EXCEPT ![<<IdOf(Top.h), Top.name>>] = h],
                       _loaded_objects, alloc, <<>>, pend,
                       Result("get_method", "handle", h, FALSE, ""), NoReq)

\* the finalizers due once the locals of a call are gone: the proxies of
\* send_args (last first) that nothing else refers to
RECURSIVE Unreferenced(_, _, _)
Unreferenced(refs, hp, hd) ==
    IF refs = <<>> THEN <<>>
    ELSE LET r    == refs[Len(refs)]
             rest == Unreferenced(SubSeq(refs, 1, Len(refs) - 1), hp, hd)
         IN  IF r > 0 /\ hp[r].st = "live" /\ ~Referenced(r, hp, hd, <<>>)
                /\ r \notin Range(SubSeq(refs, 1, Len(refs) - 1))
             THEN <<r>> \o rest
             ELSE rest

\* _get_proxied_object(id), lines 512-515: the cached proxy, else a new one
\* registered under the id
ProxiedObject(id, hp, lo) ==
    IF lo[id] # NoRef
    THEN [h |-> lo[id], heap |-> hp, objects |-> lo, hit |-> TRUE]
    ELSE [h |-> NewRef(hp),
          heap |-> PutProxy(hp, NewRef(hp), Proxy("ObjectProxy", id, "", NoRef, <<>>)),
          objects |-> [lo EXCEPT ![id] = NewRef(hp)],
          hit |-> FALSE]

\* the for loop over zip(args, self.types): where it stops at or after the
\* i-th pair: at a string (CREATE_STRING is needed), at a value that raises,
\* or at the end
RECURSIVE MarshalStop(_, _, _)
MarshalStop(args, types, i) ==
    IF i > Len(args) \/ i > Len(types)
    THEN [kind |-> "end", i |-> i, exc |-> ""]
    ELSE LET m == _pyobject_to_jobject(args[i], TRUE, types[i])
         IN  IF m.act = "return" THEN MarshalStop(args, types, i + 1)
             ELSE [kind |-> m.act, i |-> i, exc |-> m.exc]

\* the object_index behind a reference in the heap hp
IdIn(hp, ref) == IF ref < 0 THEN ref ELSE hp[ref].object_index

\* how many of the first k arguments are strings: the proxy of each is in
\* sargs, in that order
RECURSIVE StringsUpTo(_, _)
StringsUpTo(args, k) ==
    IF k = 0 THEN 0
    ELSE StringsUpTo(args, k - 1) + (IF args[k].k = "str" THEN 1 ELSE 0)

\* what write() of an element of send_args puts on the stream: the id of a
\* proxy (kind "ref"), or the type id and the value of a PrimitiveObjectProxy
\* (kind "prim"); kind "type" is a type id whose value did not follow
Encoding(kind, id, value) == [kind |-> kind, id |-> id, value |-> value]

\* the element of send_args that the marshaller's result m stands for, id
\* being the object_index of the proxy made by CREATE_STRING for a string
SendArgOf(m, id) ==
    IF m.act = "create_string" THEN Encoding("ref", id, NoValue)
    ELSE IF m.cls = "PrimitiveObjectProxy"
    THEN Encoding("prim", m.object_index, m.value)
    ELSE Encoding("ref", m.object_index, NoValue)

SendArg(args, types, sargs, hp, k) ==
    SendArgOf(_pyobject_to_jobject(args[k], TRUE, types[k]),
              IF args[k].k = "str" THEN IdIn(hp, sargs[StringsUpTo(args, k)])
              ELSE 0)

\* zip(args, self.types) stops at the shorter of the two
ZipLen(args, types) == IF Len(args) < Len(types) THEN Len(args) ELSE Len(types)

\* send_args once the for loop over zip(args, self.types) is through
send_args(args, types, sargs, hp) ==
    [k \in 1..ZipLen(args, types) |-> SendArg(args, types, sargs, hp, k)]

\* arg.write(): AbstractObjectProxy.write (310-311) raises TypeError on an id
\* that is None before it writes; PrimitiveObjectProxy.write (542-555) writes
\* the type id and then the value, and packing a float beyond the 32-bit
\* range raises OverflowError after the type id is written
WriteArg(e) ==
    IF e.kind = "ref"
    THEN IF e.id = None THEN [exc |-> "TypeError", written |-> <<>>]
         ELSE [exc |-> "", written |-> <<e>>]
    ELSE IF e.id = jfloat /\ e.value.sp = "big"
    THEN [exc |-> "OverflowError", written |-> <<Encoding("type", e.id, NoValue)>>]
    ELSE [exc |-> "", written |-> <<e>>]

\* for arg in method_args: arg.write(), lines 204-205 and 212-213, from the
\* k-th on: what got written and the exception that stopped it ("": none)
RECURSIVE WriteArgs(_, _, _)

WriteNext(sa, k, written, w) ==
    IF w.exc # "" THEN [exc |-> w.exc, written |-> written \o w.written]
    ELSE WriteArgs(sa, k + 1, written \o w.written)

WriteArgs(sa, k, written) ==
    IF k > Len(sa) THEN [exc |-> "", written |-> written]
    ELSE WriteNext(sa, k, written, WriteArg(sa[k]))

\* _execute_command(INVOKE_STATIC_METHOD / INVOKE_METHOD, ...), lines 199-213:
\* the ids and len(method_args) are written, then w is what the writing of
\* the arguments gave; an exception ends the call with the request cut short
InvokeWrite(frame, count, w, hp, hd, lo) ==
    /\ CanWrite
    /\ IF w.exc # ""
       THEN Set(Started, StartedCount, hp, hd, _loaded_classes,
                _loaded_classes_by_id, _loaded_methods, lo, StartedAlloc, <<>>,
                Unreferenced(frame.sargs, hp, hd),
                Result("invoke", "raise", NoRef, FALSE, w.exc),
                [Request(frame.cmd, frame.index, "", frame.h, Started, TRUE)
                 EXCEPT !.count = count, !.encs = w.written])
       ELSE Set(Started, StartedCount, hp, hd, _loaded_classes,
                _loaded_classes_by_id, _loaded_methods, lo, StartedAlloc,
                <<frame>>, pend, NoResult,
                [Request(frame.cmd, frame.index, "", frame.h, Started, FALSE)
                 EXCEPT !.count = count, !.encs = w.written])

\* invoke_static / invoke_instance, lines 459-472, from the i-th argument on
InvokeFrom(m, on, args, sargs, i, hp, hd, lo) ==
    LET stop == MarshalStop(args, heap[m].types, i)
        cmd  == IF on = NoRef THEN "INVOKE_STATIC_METHOD" ELSE "INVOKE_METHOD"
    IN  CASE stop.kind = "raise" ->
               Set(_java_popen, nsess, hp, hd, _loaded_classes,
                   _loaded_classes_by_id, _loaded_methods, lo, alloc, <<>>,
                   Unreferenced(sargs, hp, hd),
                   Result("invoke", "raise", NoRef, FALSE, stop.exc), NoReq)
          [] stop.kind = "create_string" ->
               Call(Frame("invoke", "CREATE_STRING", 0, m, on, "", <<>>, args,
                          sargs, stop.i), "", hp, hd, lo)
          [] stop.kind = "end" ->
               IF IdOf(m) = None \/ (on # NoRef /\ IdOf(on) = None)
               THEN PartialCall("invoke", cmd, m, hp, hd, lo,
                                Unreferenced(sargs, hp, hd))
               ELSE InvokeWrite(Frame("invoke", cmd, IdOf(m), m, on, "", <<>>,
                                      args, sargs, stop.i),
                                Len(send_args(args, heap[m].types, sargs, hp)),
                                WriteArgs(send_args(args, heap[m].types, sargs, hp),
                                          1, <<>>),
                                hp, hd, lo)

\* MethodProxy.invoke_static(*args) and, with a receiver, invoke_instance
invoke(m, on, args) ==
    /\ Idle
    /\ InvokeFrom(m, on, args, <<>>, 1, heap, held, _loaded_objects)

ReturnInvoke ==
    /\ stack # <<>> /\ Top.pc = "ret" /\ Top.op = "invoke"
    /\ IF Top.ret.out = "raise"
       THEN Finish(heap, held, Unreferenced(Top.sargs, heap, held),
                   Result("invoke", "raise", NoRef, FALSE, Top.ret.exc))
       ELSE /\ _loaded_objects[RetId(Top.ret)] # NoRef \/ CanAlloc(heap)
            /\ LET o == ProxiedObject(RetId(Top.ret), heap, _loaded_objects)
               IN  IF Top.cmd = "CREATE_STRING"
                   THEN InvokeFrom(Top.h, Top.on, Top.args, Append(Top.sargs, o.h),
                                   Top.i + 1, o.heap, held, o.objects)
                   ELSE Set(_java_popen, nsess, o.heap, held \cup {o.h},
                            _loaded_classes, _loaded_classes_by_id,
                            _loaded_methods, o.objects, alloc, <<>>,
                            Unreferenced(Top.sargs, o.heap, held \cup {o.h}),
                            Result("invoke", "handle", o.h, o.hit, ""), NoReq)

\* ObjectProxy.get_class, lines 488-493
get_class(o) ==
    /\ Idle
    /\ IF heap[o].klass # NoRef
       THEN Finish(heap, HeldPlus(heap[o].klass), pend,
                   Result("get_class", "handle", heap[o].klass, TRUE, ""))
       ELSE IF IdOf(o) = None
       THEN PartialCall("get_class", "GET_OBJECT_CLASS", o, heap, held,
                        _loaded_objects, pend)
       ELSE Call(Frame("get_class", "GET_OBJECT_CLASS", IdOf(o), o, NoRef, "",
                       <<>>, <<>>, <<>>, 0), "", heap, held, _loaded_objects)

\* _class_by_id(id, name), lines 400-403, and the memo in _klass; a value
\* that is no pair does not unpack (TypeError)
ReturnGetClass ==
    /\ stack # <<>> /\ Top.pc = "ret" /\ Top.op = "get_class"
    /\ IF Top.ret.out # "pair"
       THEN Finish(heap, held, pend,
                   Result("get_class", "raise", NoRef, FALSE,
                          IF Top.ret.out = "raise" THEN Top.ret.exc ELSE "TypeError"))
       ELSE IF _loaded_classes_by_id[Top.ret.int] # NoRef
       THEN LET c == _loaded_classes_by_id[Top.ret.int]
            IN  Finish([heap EXCEPT ![Top.h].klass = c], HeldPlus(c), pend,
                       Result("get_class", "handle", c, FALSE, ""))
       ELSE /\ CanAlloc(heap)
            /\ LET c  == NewRef(heap)
                   hp == PutProxy(heap, c, Proxy("ClassProxy", Top.ret.int,
                                                 Top.ret.str, NoRef, <<>>))
               IN  Set(_java_popen, nsess, [hp EXCEPT ![Top.h].klass = c],
                       held \cup {c},
                       [_loaded_classes EXCEPT ![Top.ret.str] = c],
                       [_loaded_classes_by_id EXCEPT ![Top.ret.int] = c],
                       _loaded_methods, _loaded_objects, alloc, <<>>, pend,
                       Result("get_class", "handle", c, FALSE, ""), NoReq)

---------------------------------------------------------------------------
(* Release.  A proxy is finalized when its last reference goes: the caller *)
(* drops it, the locals of a call go, or the proxy that referred to it is  *)
(* freed.                                                                  *)

\* the caller lets go of a reference
Drop(h) ==
    /\ Idle
    /\ h \in held
    /\ Finish(heap, held \ {h},
              IF Referenced(h, heap, held \ {h}, <<>>) \/ heap[h].st # "live"
              THEN <<>> ELSE <<h>>,
              NoResult)

\* the entries a finalizer pops: by key, whatever proxy the entry holds
PopClasses(p, lc) ==
    IF p.cls = "ClassProxy" THEN [lc EXCEPT ![p.name] = NoRef] ELSE lc
PopById(p, ci) ==
    IF p.cls = "ClassProxy" THEN [ci EXCEPT ![p.object_index] = NoRef] ELSE ci
PopMethods(p, lm) ==
    IF p.cls = "MethodProxy" THEN [lm EXCEPT ![<<IdOf(p.owner), p.name>>] = NoRef] ELSE lm
PopObjects(p, lo) ==
    IF p.cls = "ObjectProxy" THEN [lo EXCEPT ![p.object_index] = NoRef] ELSE lo

\* the weak references to a proxy are cleared when it is freed
ClearWeak(cache, h) == [k \in DOMAIN cache |-> IF cache[k] = h THEN NoRef ELSE cache[k]]

\* the proxy h is freed: its memory and its references go, and the proxies
\* it was the last to refer to are due
Freed(hp, h) == [hp EXCEPT ![h] = DeadProxy]

Cascade(hp, h) ==
    Unreferenced(<<hp[h].klass, hp[h].owner>>, Freed(hp, h), held)

\* the end of __del__ and of the proxy
Die(hp, h, pd, rq) ==
    Set(_java_popen, nsess, Freed(hp, h), held,
        ClearWeak(_loaded_classes, h), ClearWeak(_loaded_classes_by_id, h),
        ClearWeak(_loaded_methods, h), ClearWeak(_loaded_objects, h),
        alloc, Pop, Cascade(hp, h) \o pd, NoResult, rq)

\* __del__ sending FREE_OBJECT whether or not a session is active
Finalizer_always(h, pd) ==
    /\ CanWrite
    /\ heap[h].object_index # None
    /\ Set(Started, StartedCount, [heap EXCEPT ![h].st = "dying"], held,
           PopClasses(heap[h], _loaded_classes),
           PopById(heap[h], _loaded_classes_by_id),
           PopMethods(heap[h], _loaded_methods),
           PopObjects(heap[h], _loaded_objects),
           StartedAlloc,
           Append(stack, Frame("free", "FREE_OBJECT", heap[h].object_index, h,
                               NoRef, "", <<>>, <<>>, <<>>, 0)),
           pd, NoResult,
           Request("FREE_OBJECT", heap[h].object_index, "", h, Started, FALSE))

\* __del__ of ClassProxy (341-354), MethodProxy (448-457) and ObjectProxy
\* (495-505) on the proxy h: pop the cache entries, then FREE_OBJECT if a
\* session is active; pd are the finalizers due after this one
Finalizer(h, pd) ==
    LET p  == heap[h]
        lc == PopClasses(p, _loaded_classes)
        ci == PopById(p, _loaded_classes_by_id)
        lm == PopMethods(p, _loaded_methods)
        lo == PopObjects(p, _loaded_objects)
        hp == [heap EXCEPT ![h].st = "dying"]
    IN  IF _java_popen = 0 \/ p.object_index = None
        THEN Set(_java_popen, nsess, Freed(hp, h), held,
                 ClearWeak(lc, h), ClearWeak(ci, h), ClearWeak(lm, h),
                 ClearWeak(lo, h), alloc, stack, Cascade(hp, h) \o pd,
                 NoResult,
                 IF _java_popen = 0 THEN NoReq
                 ELSE Request("FREE_OBJECT", None, "", h, _java_popen, TRUE))
        ELSE Set(_java_popen, nsess, hp, held, lc, ci, lm, lo, alloc,
                 Append(stack, Frame("free", "FREE_OBJECT", p.object_index, h,
                                     NoRef, "", <<>>, <<>>, <<>>, 0)),
                 pd, NoResult,
                 Request("FREE_OBJECT", p.object_index, "", h, _java_popen, FALSE))

\* the finalizer of a proxy whose last reference has gone runs at once
Finalize ==
    /\ pend # <<>>
    /\ stack = <<>>
    /\ Finalizer(Head(pend), Tail(pend))

\* after the FREE_OBJECT of a finalizer: whatever came back is swallowed
ReturnFree ==
    /\ stack # <<>> /\ Top.pc = "ret" /\ Top.op = "free"
    /\ Die(heap, Top.h, pend, NoReq)

Next ==
    \/ init
    \/ quit
    \/ \E name \in UserNames \cup {BuiltinName(jString)} : class_for_name(name)
    \/ \E c \in HeldOf("ClassProxy") \cup {jString} :
          \E name \in MethodNames :
             \E types \in SeqsUpTo(ParamTypes, MaxParams) : get_method(c, name, types)
    \/ \E m \in HeldOf("MethodProxy") :
          \E on \in {NoRef} \cup HeldOf("ObjectProxy") :
             \E args \in SeqsUpTo(ArgValues, MaxArgs) : invoke(m, on, args)
    \/ \E o \in HeldOf("ObjectProxy") : get_class(o)
    \/ \E h \in held : Drop(h)
    \/ Finalize
    \/ Respond
    \/ ReturnQuit
    \/ ReturnClassForName
    \/ ReturnGetMethod
    \/ ReturnInvoke
    \/ ReturnGetClass
    \/ ReturnFree

Spec == Init /\ [][Next]_vars

---------------------------------------------------------------------------
(* SpecGC: the same with the cycle collector.  A proxy that sits in a       *)
(* reference cycle is not finalized when the caller lets go of it but when  *)
(* the collector next runs, which is at an allocation of whatever code is   *)
(* running: between two calls, or inside _execute_command.                  *)

\* the caller lets go of the last reference to a structure that holds the
\* proxy in a reference cycle
DropCyclic(h) ==
    /\ Idle
    /\ h \in held
    /\ heap[h].st = "live"
    /\ ~Referenced(h, heap, held \ {h}, <<>>)
    /\ Finish([heap EXCEPT ![h].st = "garbage"], held \ {h}, <<>>, NoResult)

\* the collector finds the proxy and runs its finalizer
Collect(h) ==
    /\ heap[h].st = "garbage"
    /\ ~Referenced(h, heap, held, stack)
    /\ pend = <<>>
    /\ IF stack = <<>> THEN TRUE ELSE Top.pc = "wait"
    /\ Finalizer(h, <<>>)

NextGC ==
    \/ Next
    \/ \E h \in held : DropCyclic(h)
    \/ \E h \in HeapRefs : Collect(h)

SpecGC == Init /\ [][NextGC]_vars

---------------------------------------------------------------------------
(* SpecInvoke: the calls of one method.  The session is active and the      *)
(* caller holds the method f of java.lang.String, resolved with some list   *)
(* of parameter types; the arguments are of every host type.                *)

\* the longest parameter list and the longest argument list
MaxInvParams == 2
MaxInvArgs == 2

InvParamTypes == {jint, jfloat, jString}

\* an int, a float beyond the 32-bit range, a string, a value of an
\* unsupported type, the class tokens byte, int and java.lang.String
InvArgValues ==
    {HostValue("int", 5, "fin"), HostValue("float", 0, "big"),
     HostValue("str", 0, "fin"), HostValue("other", 0, "fin"),
     HostValue("class", jbyte, "fin"), HostValue("class", jint, "fin"),
     HostValue("class", jString, "fin")}

\* the objects the caller holds, as arguments
HeldArgs == {HostValue("proxy", heap[o].object_index, "fin") : o \in HeldOf("ObjectProxy")}

\* after init() and jString.get_method("f", *types), answered with the id 0
InvInit ==
    /\ _java_popen = 1
    /\ nsess = 1
    /\ \E types \in SeqsUpTo(InvParamTypes, MaxInvParams) :
          heap = <<[cls |-> "MethodProxy", object_index |-> 0, name |-> "f",
                    owner |-> jString, types |-> types, klass |-> NoRef,
                    sess |-> 1, st |-> "live"]>>
    /\ held = {1}
    /\ _loaded_classes =
          [n \in ClassNames |-> IF n \in BuiltinNames THEN _DEFAULT_CLASSES(n) ELSE NoRef]
    /\ _loaded_classes_by_id = [i \in Ids |-> IF i \in BuiltinIds THEN i ELSE NoRef]
    /\ _loaded_methods = [EmptyMethods EXCEPT ![<<jString, "f">>] = 1]
    /\ _loaded_objects = EmptyById
    /\ alloc = [FreshAlloc EXCEPT ![0] = "method"]
    /\ stack = <<>>
    /\ pend = <<>>
    /\ res = Result("get_method", "handle", 1, FALSE, "")
    /\ req = NoReq
    /\ ended = {}
    /\ PureOff

NextInvoke ==
    \/ \E m \in HeldOf("MethodProxy") :
          \E on \in {NoRef} \cup HeldOf("ObjectProxy") :
             \E args \in SeqsUpTo(InvArgValues \cup HeldArgs, MaxInvArgs) :
                invoke(m, on, args)
    \/ \E h \in held : Drop(h)
    \/ Finalize
    \/ Respond
    \/ ReturnInvoke
    \/ ReturnFree

SpecInvoke == InvInit /\ [][NextInvoke]_vars

---------------------------------------------------------------------------
(* Properties of the registry and the session *)

\* the proxy h of the active session can still be reached by the caller
ReachableHere(h) ==
    /\ heap[h].st = "live"
    /\ _java_popen # 0
    /\ heap[h].sess = _java_popen
    /\ Referenced(h, heap, held, stack)

ClassesNamed(name) ==
    {h \in HeapRefs : heap[h].cls = "ClassProxy" /\ heap[h].name = name}

ObjectsWithId(id) ==
    {h \in HeapRefs : heap[h].cls = "ObjectProxy" /\ heap[h].object_index = id}

\* C1: while a class handle obtained for a name (an object handle obtained
\* for an id) is reachable in the active session, no GET_CLASS is sent for
\* that name and every resolution hands back that very handle; a handle
\* handed back is never a released one
C1_HandleIdentity ==
    /\ req.cmd = "GET_CLASS" =>
          \A h \in ClassesNamed(req.name) : ~ReachableHere(h)
    /\ (res.op = "class_for_name" /\ res.out = "handle" /\ res.h > 0) =>
          /\ heap[res.h].st = "live"
          /\ \A h \in ClassesNamed(heap[res.h].name) \ {res.h} : ~ReachableHere(h)
    /\ (res.op = "invoke" /\ res.out = "handle") =>
          /\ heap[res.h].st = "live"
          /\ \A h \in ObjectsWithId(heap[res.h].object_index) \ {res.h} :
                ~ReachableHere(h)

\* a second resolution of a name has been served by the handle of the first
C1_Witness ==
    /\ res.op = "class_for_name" /\ res.out = "handle" /\ res.hit /\ res.h > 0
    /\ ReachableHere(res.h)

AllCachesEmpty ==
    /\ _loaded_classes = EmptyClasses
    /\ _loaded_classes_by_id = EmptyById
    /\ _loaded_methods = EmptyMethods
    /\ _loaded_objects = EmptyById

\* the dispatch loop has just handed back from a SHUTDOWN
ShutdownObserved ==
    /\ stack # <<>>
    /\ Top.pc = "ret"
    /\ Top.ret.out = "none"
    /\ Top.ret.tag = J2Py_SHUTDOWN

\* C2: when the dispatch loop observes SHUTDOWN the four caches are empty
\* and the session is inactive, and a class that was resolved before the
\* shutdown (a handle of an ended session still bears its name) is not
\* served from the cache afterwards by a handle that no answer to a
\* GET_CLASS delivered
C2_ShutdownResetsState ==
    /\ ShutdownObserved => AllCachesEmpty /\ _java_popen = 0
    /\ (/\ res.op = "class_for_name" /\ res.out = "handle" /\ res.hit /\ res.h > 0
        /\ \E g \in ClassesNamed(heap[res.h].name) \ {res.h} : heap[g].sess \in ended)
       => heap[res.h].sess # 0

\* a SHUTDOWN has been observed with a class, a method or an object cached
\* until then
C2_Witness ==
    /\ ShutdownObserved
    /\ AllCachesEmpty
    /\ \E h \in HeapRefs : heap[h].st = "live" /\ heap[h].sess \in ended

\* C3: the finalizer of a handle runs once and when nothing refers to the
\* handle any more; for a handle of the active session it writes one
\* FREE_OBJECT with the id of the handle; with no session active it writes
\* nothing, starts no process and raises nothing; and no FREE_OBJECT is
\* written by anything but a finalizer
C3_ReleaseExactlyOnce ==
    [][\A h \in HeapRefs :
         /\ (heap[h].st = "live" /\ heap'[h].st # "live") =>
               /\ ~Referenced(h, heap, held, stack)
               /\ (_java_popen # 0 /\ heap[h].sess = _java_popen) =>
                     /\ heap'[h].st = "dying"
                     /\ heap[h].object_index # None
                     /\ req' = Request("FREE_OBJECT", heap[h].object_index, "",
                                       h, heap[h].sess, FALSE)
               /\ _java_popen = 0 =>
                     /\ heap'[h].st = "dead"
                     /\ req' = NoReq
                     /\ _java_popen' = 0 /\ nsess' = nsess
                     /\ res'.out # "raise"
         /\ heap[h].st = "dying" => heap'[h].st \in {"dying", "dead"}
         /\ (req'.cmd = "FREE_OBJECT" /\ req' # req /\ req'.h = h) =>
               heap[h].st = "live" /\ heap'[h].st \in {"dying", "dead"}
      ]_vars

\* the FREE_OBJECT of a handle of the active session is in flight
C3_Witness ==
    /\ req.cmd = "FREE_OBJECT" /\ ~req.partial
    /\ heap[req.h].st = "dying"
    /\ heap[req.h].sess = req.sess
    /\ req.index = heap[req.h].object_index

\* C4: no FREE_OBJECT is written for a handle that was created in a session
\* which has been shut down
C4_OrphanedStubs ==
    req.cmd = "FREE_OBJECT" => heap[req.h].sess \notin ended

\* C7: while a method handle resolved for (C, name) with parameter types P1
\* is reachable in the active session, no GET_METHOD is sent for (C, name)
\* with other parameter types, and the resolution hands back that handle
MethodsOf(c, name) ==
    {m \in HeapRefs : /\ heap[m].cls = "MethodProxy"
                      /\ heap[m].owner = c
                      /\ heap[m].name = name}

C7_OverloadCachePolicy ==
    /\ req.cmd = "GET_METHOD" =>
          \A m \in MethodsOf(req.h, req.name) :
             ~(ReachableHere(m) /\ heap[m].types # Top.types)
    /\ (res.op = "get_method" /\ res.out = "handle") =>
          \A m \in MethodsOf(heap[res.h].owner, heap[res.h].name) \ {res.h} :
             ~ReachableHere(m)

\* a further resolution of (C, name) has been served by the handle of the
\* first
C7_Witness ==
    /\ res.op = "get_method" /\ res.out = "handle" /\ res.hit
    /\ ReachableHere(res.h)

\* C5: at most one request is written and not yet answered by its terminal
\* response tag
C5_StrictHalfDuplex ==
    Cardinality({k \in 1..Len(stack) : stack[k].pc = "wait"}) <= 1

\* C12: quit() with no session active writes nothing, starts no process and
\* changes no state; quit() on an active session writes one SHUTDOWN request
\* to that session, and once the answer (SHUTDOWN) is read the session is
\* inactive, so a second quit() in a row writes nothing
C12_QuitIdempotent ==
    [][/\ (stack = <<>> /\ res'.op = "quit" /\ _java_popen = 0) =>
             /\ req' = NoReq
             /\ UNCHANGED <<_java_popen, nsess, heap, held, caches, alloc,
                            ended, stack, pend>>
       /\ (stack = <<>> /\ stack' # <<>> /\ stack'[1].op = "quit") =>
             /\ _java_popen # 0
             /\ req' = Request("SHUTDOWN", 0, "", NoRef, _java_popen, FALSE)
             /\ UNCHANGED <<_java_popen, nsess>>
       /\ (stack # <<>> /\ Top.op = "quit" /\ Top.pc = "ret") =>
             _java_popen = 0 /\ Top.ret.tag = J2Py_SHUTDOWN
       /\ (req'.cmd = "SHUTDOWN" /\ req' # req) =>
             stack = <<>> /\ _java_popen # 0
      ]_vars

\* init(), quit() and quit() again: the second one has done nothing
C12_Witness ==
    /\ res = Result("quit", "none", NoRef, TRUE, "")
    /\ _java_popen = 0 /\ nsess = 1 /\ ended = {1}
    /\ heap = <<>> /\ req = NoReq

\* the sessions started and not seen to shut down
LiveSessions == (1..nsess) \ ended

\* C13: a process is started only when no session is active, a request
\* written with no session active starts one, and at most one session that
\* was started and has not been shut down exists
C13_LazyIdempotentStart ==
    [][/\ nsess' # nsess =>
             _java_popen = 0 /\ nsess' = nsess + 1 /\ _java_popen' = nsess'
       /\ (req'.cmd # "" /\ req' # req /\ _java_popen = 0) =>
             nsess' = nsess + 1 /\ req'.sess = nsess'
       /\ (req'.cmd # "" /\ req' # req /\ _java_popen # 0) =>
             nsess' = nsess /\ req'.sess = _java_popen
       /\ Cardinality(LiveSessions') <= 1
      ]_vars

\* the first request of a run has started the first session
C13_Witness ==
    /\ req.cmd = "GET_CLASS" /\ req.sess = 1
    /\ _java_popen = 1 /\ nsess = 1 /\ ended = {}
    /\ heap = <<>>

\* C14: no FREE_OBJECT carries a built-in id, and a class handle handed to
\* the caller for a built-in id or a built-in name is the pre-registered one
\* (a negative reference), never a proxy created later
C14_BuiltinsNeverReleased ==
    /\ req.cmd = "FREE_OBJECT" => req.index \notin BuiltinIds
    /\ (res.out = "handle" /\ res.h > 0 /\ heap[res.h].cls = "ClassProxy") =>
          /\ heap[res.h].object_index \notin BuiltinIds
          /\ heap[res.h].name \notin BuiltinNames

\* get_class has answered with the pre-registered java.lang.String
C14_Witness ==
    /\ res.op = "get_class" /\ res.out = "handle" /\ res.h = jString
    /\ \E o \in held : heap[o].klass = jString

\* the requests whose answer registers a handle
HandleCmds ==
    {"GET_CLASS", "GET_METHOD", "CREATE_STRING", "GET_OBJECT_CLASS",
     "INVOKE_STATIC_METHOD", "INVOKE_METHOD"}

\* this step reads ERROR_RESULT as the answer to one of those requests
RemoteFaultStep ==
    /\ stack # <<>> /\ stack' # <<>>
    /\ Top.pc = "wait" /\ Top.cmd \in HandleCmds
    /\ stack'[Len(stack')].pc = "ret"
    /\ stack'[Len(stack')].ret.tag = J2Py_ERROR_RESULT

\* this step is the rest of the caller once such a request has failed
RemoteFaultReturn ==
    /\ stack # <<>>
    /\ Top.pc = "ret" /\ Top.cmd \in HandleCmds
    /\ Top.ret.tag = J2Py_ERROR_RESULT
    /\ stack' = <<>>

\* C17: a request for a class, a method, a string, the class of an object or
\* an invocation that is answered with ERROR_RESULT registers no handle: the
\* four caches and every proxy (the memoized class of an object included)
\* are as they were when the fault reaches the caller, who gets a raise and
\* no handle, and the session stays the active one
C17_RemoteFaultLeavesState ==
    [][/\ RemoteFaultStep =>
            /\ UNCHANGED <<caches, heap, held, _java_popen, nsess>>
            /\ _java_popen # 0
       /\ RemoteFaultReturn =>
            /\ UNCHANGED <<caches, heap, held, _java_popen, nsess>>
            /\ _java_popen # 0
            /\ res'.out = "raise" /\ res'.h = NoRef]_vars

\* GET_OBJECT_CLASS has failed for an object that stays registered, without
\* a memoized class, on the session that is still active
C17_Witness ==
    /\ res.op = "get_class" /\ res.out = "raise" /\ res.exc = "JavaException"
    /\ _java_popen # 0
    /\ \E o \in held : /\ heap[o].cls = "ObjectProxy"
                        /\ heap[o].klass = NoRef
                        /\ heap[o].sess = _java_popen
                        /\ _loaded_objects[heap[o].object_index] = o

\* the references held by the four caches
CachedRefs ==
    ({_loaded_classes[n] : n \in DOMAIN _loaded_classes}
       \cup {_loaded_classes_by_id[i] : i \in DOMAIN _loaded_classes_by_id}
       \cup {_loaded_methods[k] : k \in DOMAIN _loaded_methods}
       \cup {_loaded_objects[i] : i \in DOMAIN _loaded_objects}) \ {NoRef}

\* the handle behind h is pre-registered, or carries an int that a response
\* of the active session delivered; hp is the heap and popen the session
DeliveredIn(h, hp, popen) ==
    \/ h \in BuiltinIds
    \/ /\ h > 0
       /\ hp[h].object_index \in 0..MaxId
       /\ popen # 0 /\ hp[h].sess = popen

DeliveredId(h) == DeliveredIn(h, heap, _java_popen)

\* this step is the rest of a caller whose request was answered by SHUTDOWN
\* or by the end of the stream
EndedReturn ==
    /\ stack # <<>>
    /\ Top.pc = "ret" /\ Top.op # "free" /\ Top.op # "quit"
    /\ Top.ret.out = "none" /\ Top.ret.tag = J2Py_SHUTDOWN
    /\ stack' = <<>>

\* C20: every handle in one of the four caches, and every handle that
\* class_for_name, get_method, an invoke or get_class hands to the caller,
\* is pre-registered or carries an int id delivered by an INT_RESULT or
\* INT_STRING_PAIR_RESULT of the active session; an operation whose request
\* is answered by SHUTDOWN or by the end of the stream registers no handle
\* and leaves the four caches empty when it returns
C20_CachedIds ==
    /\ [](\A h \in CachedRefs : DeliveredId(h))
    /\ [][/\ (res' # res /\ res'.out = "handle") =>
                DeliveredIn(res'.h, heap', _java_popen')
          /\ EndedReturn =>
                /\ res'.out # "handle"
                /\ _loaded_classes' = EmptyClasses
                /\ _loaded_classes_by_id' = EmptyById
                /\ _loaded_methods' = EmptyMethods
                /\ _loaded_objects' = EmptyById]_vars

\* class_for_name has registered and returned a class whose id the active
\* session delivered
C20_Witness ==
    /\ res.op = "class_for_name" /\ res.out = "handle" /\ ~res.hit
    /\ res.h > 0 /\ res.h \in CachedRefs
    /\ DeliveredId(res.h)

\* the last request written is a whole frame: the writing did not stop on an
\* exception, and an invoke carries as many arguments as its count says
WholeFrame(r) ==
    /\ ~r.partial
    /\ r.cmd \in {"INVOKE_STATIC_METHOD", "INVOKE_METHOD"} =>
          /\ Len(r.encs) = r.count
          /\ \A k \in 1..Len(r.encs) : r.encs[k].kind # "type"

\* C21: whenever no operation is in progress, what has been written to the
\* request stream is a sequence of whole request frames: no operation, a
\* release whose failure is swallowed included, has left a command tag or a
\* part of a payload without the rest of its frame.  Every write is the last
\* request of the state that follows it, so a frame cut short at any time
\* shows there.
C21_RequestStreamWellFormed == stack = <<>> => WholeFrame(req)

\* on the first session a proxy has been released with a whole FREE_OBJECT
\* that the remote side answered, and nothing is in progress
C21_Witness ==
    /\ Idle /\ req = NoReq
    /\ _java_popen = 1 /\ nsess = 1
    /\ \E h \in HeapRefs : heap[h].st = "dead"
    /\ \A i \in 0..MaxId : alloc[i] = "free"

---------------------------------------------------------------------------
(* Properties of the calls of a method (SpecInvoke) *)

InvokeCmds == {"INVOKE_STATIC_METHOD", "INVOKE_METHOD"}

\* this step ends an invoke with the fault of the marshaller
MarshalFaultStep ==
    /\ res'.op = "invoke" /\ res'.out = "raise" /\ res'.exc = "ValueError"
    /\ IF stack = <<>> THEN TRUE ELSE Top.pc = "ret"

\* C11: an invoke whose argument list holds an unsupported host value raises
\* the marshalling fault before it has written any byte of a request (no
\* CREATE_STRING, no INVOKE), with the caches and the session unchanged; so
\* no INVOKE request of a call with such an argument is ever in flight
C11_MarshalFaultNoSideEffect ==
    [][/\ MarshalFaultStep =>
             /\ stack = <<>>
             /\ req' = NoReq
             /\ UNCHANGED <<caches, _java_popen, nsess>>
       /\ (stack' # <<>> /\ stack'[Len(stack')].cmd \in InvokeCmds) =>
             \A k \in 1..Len(stack'[Len(stack')].args) :
                stack'[Len(stack')].args[k].k # "other"
      ]_vars

\* an unsupported value in the first position has raised the fault with
\* nothing written
C11_Witness ==
    /\ res.op = "invoke" /\ res.out = "raise" /\ res.exc = "ValueError"
    /\ req = NoReq /\ stack = <<>> /\ pend = <<>>
    /\ _loaded_objects = EmptyById
    /\ _java_popen = 1

\* the ids of the primitive types byte .. double
PrimitiveTypeIds == jdouble..jbyte

\* the INVOKE request of a call is in flight, written whole
InvokeInFlight ==
    /\ stack # <<>>
    /\ Top.pc = "wait" /\ Top.cmd \in InvokeCmds
    /\ ~req.partial

\* C18: a primitive-type class token (ids -1..-8) passed as an argument is
\* sent as a temporary whose id is the type id minus 8, which is at most -12
\* and so no built-in id; every other class token and every object handle
\* is sent with its own id; and no FREE_OBJECT is ever sent for the id of a
\* temporary
C18_ArbitraryTemporary ==
    /\ InvokeInFlight =>
          \A k \in 1..Len(req.encs) :
             /\ (Top.args[k].k = "class" /\ Top.args[k].v \in PrimitiveTypeIds) =>
                   /\ req.encs[k] = Encoding("ref", Top.args[k].v - 8, NoValue)
                   /\ req.encs[k].id <= -12
                   /\ req.encs[k].id \notin BuiltinIds
             /\ (Top.args[k].k = "class" /\ Top.args[k].v \notin PrimitiveTypeIds) =>
                   req.encs[k] = Encoding("ref", Top.args[k].v, NoValue)
             /\ Top.args[k].k = "proxy" =>
                   req.encs[k] = Encoding("ref", Top.args[k].v, NoValue)
    /\ req.cmd = "FREE_OBJECT" => req.index \notin {t - 8 : t \in BuiltinIds}

\* the class token int has been sent as the temporary -13
C18_Witness ==
    /\ InvokeInFlight
    /\ Len(req.encs) >= 1
    /\ Top.args[1] = HostValue("class", jint, "fin")
    /\ req.encs[1] = Encoding("ref", jint - 8, NoValue)

\* the encoding e is the one of the argument arg marshalled against type
EncodesArg(e, arg, type) ==
    CASE arg.k \in {"int", "float"} -> e.kind = "prim" /\ e.id = type
      [] arg.k = "proxy" -> e.kind = "ref" /\ e.id = arg.v
      [] arg.k = "str" ->
           /\ e.kind = "ref"
           /\ \E o \in HeapRefs : /\ heap[o].cls = "ObjectProxy"
                                   /\ heap[o].object_index = e.id
      [] arg.k = "class" -> e.kind = "ref"
      [] OTHER -> FALSE

\* C19: an INVOKE request for a method with d declared parameter types,
\* called with a arguments, carries the count min(a, d) followed by exactly
\* that many encodings, those of the first min(a, d) arguments in order,
\* each marshalled against the declared type at its position; arguments
\* beyond d are dropped
C19_PositionalZip ==
    /\ (req.cmd \in InvokeCmds /\ req.index # None) =>
          /\ Len(req.encs) = req.count
          /\ \A k \in 1..Len(req.encs) : req.encs[k].kind # "type"
    /\ InvokeInFlight =>
          /\ req.count = ZipLen(Top.args, heap[Top.h].types)
          /\ \A k \in 1..Len(req.encs) :
                EncodesArg(req.encs[k], Top.args[k], heap[Top.h].types[k])

\* a method with one declared type is called with two arguments: the count
\* is 1 and only the first argument is sent
C19_Witness ==
    /\ InvokeInFlight
    /\ Len(heap[Top.h].types) = 1 /\ Len(Top.args) = 2
    /\ req.count = 1 /\ Len(req.encs) = 1
    /\ Top.args[1].k = "int"
    /\ req.encs[1].kind = "prim" /\ req.encs[1].id = heap[Top.h].types[1]

---------------------------------------------------------------------------
(* The codec checked on its own: SpecInt (32-bit fields), SpecStr (strings) *)

\* the largest mantissa and the largest hexadecimal exponent of the sampled
\* 32-bit integers
MaxMant == 4
MaxExp == 6

RECURSIVE Pow16(_)
Pow16(k) == IF k = 0 THEN 1 ELSE 16 * Pow16(k - 1)

MinInt32 == -2147483647 - 1

\* sampled int32 values: both bounds, 0, and +-(m * 16^k) +- 1
IntSamples ==
    {MinInt32, MinInt32 + 1, INTEGER_MAX_VALUE, INTEGER_MAX_VALUE - 1, 0}
    \cup {s * m * Pow16(k) + d : s \in {-1, 1}, m \in 1..MaxMant,
                                 k \in 0..MaxExp, d \in {-1, 0, 1}}

IntInit ==
    /\ MainInit
    /\ pin \in IntSamples
    /\ pout = <<>>
    /\ ppc = "in"

\* the encoder writes the field of pin
IntEncode ==
    /\ ppc = "in"
    /\ pout' = _int_to_str(pin, 32)
    /\ ppc' = "enc"
    /\ UNCHANGED <<pin, mainvars>>

\* the decoder reads the field back
IntDecode ==
    /\ ppc = "enc"
    /\ pout' = _read_int(pout)
    /\ ppc' = "dec"
    /\ UNCHANGED <<pin, mainvars>>

IntNext == IntEncode \/ IntDecode

SpecInt == IntInit /\ [][IntNext]_vars

\* the unsigned two's complement of n as 8 digits, most significant first,
\* stated from the value and not from the encoder's loop
RECURSIVE DigitsOf(_, _)
DigitsOf(v, count) ==
    IF count = 0 THEN <<>>
    ELSE Append(DigitsOf(v \div 16, count - 1), _DIGIT_CHARS[(v % 16) + 1])

TwosComplementHex(n) ==
    DigitsOf((n \div Limb) % Limb, 4) \o DigitsOf(n % Limb, 4)

\* C9: every int32 is written as exactly 8 lowercase hexadecimal characters,
\* its unsigned two's complement, and reading them back returns it
C9_IntRoundTrip ==
    /\ ppc = "enc" => /\ Len(pout) = 8
                      /\ \A k \in 1..8 : pout[k] \in HexDigits
                      /\ pout = TwosComplementHex(pin)
    /\ ppc = "dec" => pout.exc = "" /\ pout.value = Wide(pin) /\ pout.rest = <<>>

\* the lower bound -2^31, a negative value, has made the round trip
C9_Witness == ppc = "dec" /\ pin = MinInt32 /\ pout.value = Wide(MinInt32)

\* the alphabet and the longest text of the sampled strings
StrAlphabet == {"a", "0", "f", "CR", "LF"}
MaxStrLen == 3

\* what may follow a frame on the stream
StrTails == {<<>>, <<"4">>, <<"LF", "2">>}

StrInit ==
    /\ MainInit
    /\ pin \in [s : SeqsUpTo(StrAlphabet, MaxStrLen), tail : StrTails,
                os : {"posix", "nt"}]
    /\ pout = <<>>
    /\ ppc = "in"

\* _write_str(s) through the request stream, followed by the tail
StrEncode ==
    /\ ppc = "in"
    /\ pout' = StdinWrite(_write_str(pin.s), pin.os) \o pin.tail
    /\ ppc' = "enc"
    /\ UNCHANGED <<pin, mainvars>>

\* _read_str() on those characters
StrDecode ==
    /\ ppc = "enc"
    /\ pout' = _read_str(pout)
    /\ ppc' = "dec"
    /\ UNCHANGED <<pin, mainvars>>

StrNext == StrEncode \/ StrDecode

SpecStr == StrInit /\ [][StrNext]_vars

\* C10: the frame of s is the length field followed by exactly the characters
\* of s, and decoding it returns s and leaves the stream at the next frame
C10_StrRoundTrip ==
    /\ ppc = "enc" => pout = _int_to_str(Len(pin.s), 32) \o pin.s \o pin.tail
    /\ ppc = "dec" => pout.exc = "" /\ pout.value = pin.s /\ pout.rest = pin.tail

\* a text of three characters has made the round trip, and the stream is
\* left at the next frame
C10_Witness ==
    /\ ppc = "dec"
    /\ pin.s = <<"a", "0", "f">> /\ pin.tail = <<"4">>
    /\ pout.exc = "" /\ pout.value = pin.s /\ pout.rest = pin.tail

---------------------------------------------------------------------------
(* SpecErr: a request answered with ERROR_RESULT *)

ErrAlphabet == {"K", "m", ":", " ", "CR"}
MaxKind == 2
MaxMessage == 2

ErrInit ==
    /\ MainInit
    /\ pin \in [kind : SeqsUpTo(ErrAlphabet, MaxKind) \ {<<>>},
                message : SeqsUpTo(ErrAlphabet, MaxMessage)]
    /\ pout = <<>>
    /\ ppc = "in"

\* the remote side answers with ERROR_RESULT and kind + ": " + message
ErrAnswer ==
    /\ ppc = "in"
    /\ pout' = RemoteStrFrame(J2Py_ERROR_RESULT, pin.kind \o <<":", " ">> \o pin.message)
    /\ ppc' = "sent"
    /\ UNCHANGED <<pin, mainvars>>

\* the dispatch loop reads the answer
ErrDispatch ==
    /\ ppc = "sent"
    /\ pout' = DispatchLoop(pout, <<>>)
    /\ ppc' = "done"
    /\ UNCHANGED <<pin, mainvars>>

ErrNext == ErrAnswer \/ ErrDispatch

SpecErr == ErrInit /\ [][ErrNext]_vars

\* the text before / after the first ": " of kind + ": " + message
ErrPayload == pin.kind \o <<":", " ">> \o pin.message
ErrFirstSep == CHOOSE k \in 1..Len(ErrPayload) :
                  /\ SubSeq(ErrPayload, k, k + 1) = <<":", " ">>
                  /\ \A j \in 1..(k - 1) : SubSeq(ErrPayload, j, j + 1) # <<":", " ">>

\* C6: an ERROR_RESULT with payload kind + ": " + message raises a fault
\* whose kind is the text before the first ": " and whose message is the text
\* after it, and returns no value
C6_ErrorPropagation ==
    ppc = "done" =>
        /\ pout.out = "raise"
        /\ pout.exc = "JavaException"
        /\ pout.type = SubSeq(ErrPayload, 1, ErrFirstSep - 1)
        /\ pout.message = SubSeq(ErrPayload, ErrFirstSep + 2, Len(ErrPayload))

\* the payload "K: m" has raised the fault of kind K with the message m
C6_Witness ==
    /\ ppc = "done"
    /\ pin.kind = <<"K">> /\ pin.message = <<"m">>
    /\ pout.out = "raise" /\ pout.exc = "JavaException"
    /\ pout.type = <<"K">> /\ pout.message = <<"m">>

---------------------------------------------------------------------------
(* SpecShort: a response that ends after its tag and before the end of its  *)
(* payload                                                                  *)

\* the ints and the longest text of the sampled responses
MaxShortInt == 2
MaxShortLen == 2

ShortAlphabet == {"a", "0"}

\* the responses with a payload, whole
ShortFrames ==
    {<<_DIGIT_CHARS[J2Py_INT_RESULT + 1]>> \o _int_to_str(n, 32) :
        n \in -MaxShortInt..MaxShortInt}
    \cup {RemoteStrFrame(tag, t) :
             tag \in {J2Py_STRING_RESULT, J2Py_ERROR_RESULT, J2Py_PRINT_OUT},
             t \in SeqsUpTo(ShortAlphabet, MaxShortLen)}
    \cup {<<_DIGIT_CHARS[J2Py_INT_STRING_PAIR_RESULT + 1]>>
             \o _int_to_str(n, 32) \o _write_str(t) :
             n \in {0, MaxShortInt}, t \in SeqsUpTo(ShortAlphabet, MaxShortLen)}

ShortInit ==
    /\ MainInit
    /\ pin \in [frame : ShortFrames, cut : 1..(8 + 8 + MaxShortLen)]
    /\ pin.cut < Len(pin.frame)
    /\ pout = <<>>
    /\ ppc = "in"

\* the stream ends cut characters into the response
ShortAnswer ==
    /\ ppc = "in"
    /\ pout' = SubSeq(pin.frame, 1, pin.cut)
    /\ ppc' = "sent"
    /\ UNCHANGED <<pin, mainvars>>

\* the dispatch loop reads it
ShortDispatch ==
    /\ ppc = "sent"
    /\ pout' = DispatchLoop(pout, <<>>)
    /\ ppc' = "done"
    /\ UNCHANGED <<pin, mainvars>>

ShortNext == ShortAnswer \/ ShortDispatch

SpecShort == ShortInit /\ [][ShortNext]_vars

\* C15: a response that ends after its tag and before the end of its payload
\* makes the read raise a fault instead of returning a value, and the
\* session is no longer active afterwards
C15_NoPartialReads ==
    ppc = "done" => pout.out = "raise" /\ SessionEnds(pout)

\* an INT_RESULT whose stream ends right after the tag has raised
C15_Witness ==
    /\ ppc = "done"
    /\ pin.cut = 1 /\ pin.frame[1] = _DIGIT_CHARS[J2Py_INT_RESULT + 1]
    /\ pout.out = "raise" /\ pout.exc = "ValueError"

---------------------------------------------------------------------------
(* SpecPrint: a response of PRINT_OUT frames followed by a terminal frame, *)
(* read by the loop one frame a step                                       *)

\* the number of PRINT_OUT frames, the longest message and the ints sampled
MaxPrints == 2
MaxPrintLen == 2
MaxPrintInt == 1

PrintAlphabet == {"a", "CR", "LF"}

PrintTexts == SeqsUpTo(PrintAlphabet, MaxPrintLen)

\* the terminal answers: a tag that returns, or the end of the stream
Terminals ==
    [kind : {"int"}, n : -MaxPrintInt..MaxPrintInt, t : {<<>>}]
    \cup [kind : {"str"}, n : {0}, t : PrintTexts]
    \cup [kind : {"pair"}, n : {-MaxPrintInt, MaxPrintInt}, t : {<<>>, <<"a">>}]
    \cup [kind : {"void", "shutdown", "eof"}, n : {0}, t : {<<>>}]

\* the frame of a terminal answer as the remote side writes it
TerminalFrame(term) ==
    CASE term.kind = "int" ->
           <<_DIGIT_CHARS[J2Py_INT_RESULT + 1]>> \o _int_to_str(term.n, 32)
      [] term.kind = "str" -> RemoteStrFrame(J2Py_STRING_RESULT, term.t)
      [] term.kind = "pair" ->
           <<_DIGIT_CHARS[J2Py_INT_STRING_PAIR_RESULT + 1]>>
              \o _int_to_str(term.n, 32) \o _write_str(term.t)
      [] term.kind = "void" -> <<_DIGIT_CHARS[J2Py_VOID_RESULT + 1]>>
      [] term.kind = "shutdown" -> <<_DIGIT_CHARS[J2Py_SHUTDOWN + 1]>>
      [] term.kind = "eof" -> <<>>

\* the PRINT_OUT frames of the messages, in their order
RECURSIVE PrintFrames(_)
PrintFrames(msgs) ==
    IF msgs = <<>> THEN <<>>
    ELSE RemoteStrFrame(J2Py_PRINT_OUT, Head(msgs)) \o PrintFrames(Tail(msgs))

\* what follows the response on the stream
PrintTails == {<<>>, <<"4">>}

\* the responses: the messages, the terminal answer and what follows it
Responses ==
    {r \in [msgs : SeqsUpTo(PrintTexts, MaxPrints), term : Terminals,
            tail : PrintTails] : r.term.kind = "eof" => r.tail = <<>>}

PrintInit ==
    /\ MainInit
    /\ pin = <<>>
    /\ pout = <<>>
    /\ ppc = "in"

\* the remote side answers with r: the PRINT_OUT frames, the terminal frame,
\* then the tail
PrintAnswer ==
    /\ ppc = "in"
    /\ \E r \in Responses :
          /\ pin' = r
          /\ pout' = [stream  |-> PrintFrames(r.msgs) \o TerminalFrame(r.term) \o r.tail,
                      printed |-> <<>>]
    /\ ppc' = "loop"
    /\ UNCHANGED mainvars

\* whether the pass of the loop that reads the tag t prints and goes on
Prints(t) == RecvCommand(t) = J2Py_PRINT_OUT /\ _read_str(t.rest).exc = ""

\* one pass of the loop that prints: print(_read_str()), back to the top
PrintPass(t, s) ==
    /\ Prints(t)
    /\ pout' = [stream |-> s.rest, printed |-> Append(pout.printed, s.value)]
    /\ ppc' = "loop"

\* one pass of the loop that leaves it: a return or a raise
LastPass(t) ==
    /\ ~Prints(t)
    /\ pout' = Dispatch(RecvCommand(t), t, pout.printed)
    /\ ppc' = "done"

\* one pass of the while True loop, lines 216-242
LoopPass(t) ==
    /\ ppc = "loop"
    /\ PrintPass(t, _read_str(t.rest)) \/ LastPass(t)
    /\ UNCHANGED <<pin, mainvars>>

PrintLoop == LoopPass(StdoutRead(pout.stream, 1))

PrintNext == PrintAnswer \/ PrintLoop

SpecPrint == PrintInit /\ [][PrintNext]_vars

\* the tag that answers with the terminal term
TerminalTag(term) ==
    CASE term.kind = "int" -> J2Py_INT_RESULT
      [] term.kind = "str" -> J2Py_STRING_RESULT
      [] term.kind = "pair" -> J2Py_INT_STRING_PAIR_RESULT
      [] term.kind = "void" -> J2Py_VOID_RESULT
      [] OTHER -> J2Py_SHUTDOWN

\* the loop has returned the payload of the terminal term
ReturnsPayload(o, term) ==
    /\ o.tag = TerminalTag(term)
    /\ o.out = (IF term.kind \in {"int", "str", "pair"} THEN term.kind ELSE "none")
    /\ term.kind \in {"int", "pair"} => o.int = Wide(term.n)
    /\ term.kind \in {"str", "pair"} => o.str = term.t

\* s is the first Len(s) elements of t
IsPrefix(s, t) == Len(s) <= Len(t) /\ s = SubSeq(t, 1, Len(s))

\* C16: for a response of k PRINT_OUT frames followed by a terminal tag (or
\* the end of the stream), the loop prints the k messages in the order
\* received, does not return before the terminal tag, returns exactly its
\* payload, has consumed exactly those k+1 frames, and eventually returns:
\* every pass of the loop either leaves it or shortens what is left of the
\* response, so the loop is left after at most as many passes as the
\* response has characters
C16_PrintNonTerminal ==
    /\ [](ppc = "loop" => IsPrefix(pout.printed, pin.msgs))
    /\ [](ppc = "done" => /\ pout.printed = pin.msgs
                          /\ ReturnsPayload(pout, pin.term)
                          /\ pout.rest = pin.tail)
    /\ [][ppc = "loop" =>
              ppc' = "done" \/ Len(pout'.stream) < Len(pout.stream)]_vars

\* two messages were printed in their order, then the int of the terminal
\* INT_RESULT was returned and the stream left at the next frame
C16_Witness ==
    /\ ppc = "done"
    /\ pin.msgs = <<<<"a">>, <<"a", "a">>>> /\ pin.term.kind = "int"
    /\ pin.tail = <<"4">>
    /\ pout.printed = pin.msgs /\ pout.out = "int"
    /\ pout.int = Wide(pin.term.n) /\ pout.rest = pin.tail

---------------------------------------------------------------------------
(* SpecMarshal: the marshaller on a numeric host value *)

\* the largest magnitude of a sampled host number (in halves for a float)
MaxNum == 5

\* the largest id of a sampled class that is not pre-registered
MaxTypeId == 1

HostNumbers ==
    {HostValue("int", n, "fin") : n \in -MaxNum..MaxNum}
    \cup {HostValue("int", 0, "huge")}
    \cup {HostValue("float", n, "fin") : n \in -MaxNum..MaxNum}
    \cup {HostValue("float", 0, sp) : sp \in {"inf", "ninf", "nan"}}

MarshalInit ==
    /\ MainInit
    /\ pin \in [obj : HostNumbers, has_type : BOOLEAN, type : jClass..MaxTypeId]
    /\ pin.has_type \/ pin.type = 0
    /\ pout = <<>>
    /\ ppc = "in"

Marshal ==
    /\ ppc = "in"
    /\ pout' = _pyobject_to_jobject(pin.obj, pin.has_type, pin.type)
    /\ ppc' = "done"
    /\ UNCHANGED <<pin, mainvars>>

MarshalNext == Marshal

SpecMarshal == MarshalInit /\ [][MarshalNext]_vars

IntegralTypes == {jbyte, jboolean, jshort, jchar, jint, jlong}
FloatingTypes == {jfloat, jdouble}

\* the declared type is unknown or Object / floating / integral
TypeGeneric == ~pin.has_type \/ pin.type = jObject
TypeFloating == pin.has_type /\ pin.type \in FloatingTypes
TypeIntegral == pin.has_type /\ pin.type \in IntegralTypes

IsPrimitive(kind) ==
    pout.act = "return" /\ pout.cls = "PrimitiveObjectProxy" /\ pout.object_index = kind

\* the value as a floating / an integral value, stated on the number itself
AsFloating(obj) == IF obj.k = "float" THEN obj ELSE HostValue("float", obj.v + obj.v, "fin")
AsIntegral(obj) ==
    IF obj.k = "int" THEN obj
    ELSE HostValue("int", CHOOSE q \in -MaxNum..MaxNum :
                              /\ 2 * q * q <= q * obj.v
                              /\ \A r \in -MaxNum..MaxNum :
                                    2 * r * r <= r * obj.v => r * r <= q * q, "fin")

\* the coercion to the declared type is defined for the value
CoercionDefined ==
    /\ TypeFloating => ~(pin.obj.k = "int" /\ pin.obj.sp = "huge")
    /\ TypeIntegral => ~(pin.obj.k = "float" /\ pin.obj.sp # "fin")

\* C8 as stated: every numeric value is marshalled to a PrimitiveHandle of
\* kind int / double (type unknown or Object), of the declared floating kind
\* with the value coerced to floating, or of the declared integral kind with
\* the value coerced to integral
C8_AsStated ==
    ppc = "done" =>
        /\ TypeGeneric =>
              /\ IsPrimitive(IF pin.obj.k = "int" THEN jint ELSE jdouble)
              /\ pout.value = pin.obj
        /\ TypeFloating => IsPrimitive(pin.type) /\ pout.value.k = "float"
        /\ TypeIntegral => IsPrimitive(pin.type) /\ pout.value.k = "int"

\* C8 (amended): the same for every numeric value whose coercion to the
\* declared type is defined; for the others (a float that is not finite to an
\* integral type, an int beyond the floating range to a floating type) the
\* coercion raises and no handle is returned
C8_PrimitiveMarshalling ==
    ppc = "done" =>
        /\ TypeGeneric =>
              /\ IsPrimitive(IF pin.obj.k = "int" THEN jint ELSE jdouble)
              /\ pout.value = pin.obj
        /\ TypeFloating /\ CoercionDefined =>
              IsPrimitive(pin.type) /\ pout.value = AsFloating(pin.obj)
        /\ TypeIntegral /\ CoercionDefined =>
              IsPrimitive(pin.type) /\ pout.value = AsIntegral(pin.obj)
        /\ ~CoercionDefined =>
              pout.act = "raise" /\ pout.exc \in {"OverflowError", "ValueError"}

\* host integer 5 with declared type double has become double 5.0
C8_Witness ==
    /\ ppc = "done"
    /\ pin.obj = HostValue("int", 5, "fin") /\ pin.has_type /\ pin.type = jdouble
    /\ pout.object_index = jdouble /\ pout.value = HostValue("float", 10, "fin")

===========================================================================
